---- MODULE Spec2Model ----
(***************************************************************************)
(* Model of the hlj2023 GDP dashboard: the transform layer                 *)
(* (services/gdpService.ts) as operators computed the way the code         *)
(* computes them, and the home view (views/HomeView.vue) as a state        *)
(* machine over its refs and the DOM state of its filter inputs.           *)
(*                                                                         *)
(* Numbers are JavaScript numbers: exact rationals n/d extended with       *)
(* +Infinity, -Infinity and NaN (signed zero is not distinguished, no code *)
(* path here tells -0 from 0).  County codes are abstracted to 1..MaxLen   *)
(* in their collation order, so that localeCompare is the order of the     *)
(* integers.  The display-only strings of a formatted county               *)
(* (growthRateFormatted, regionRank, gdpUnit, name) are left out: no       *)
(* operation of the transform layer or of the view reads them.             *)
(***************************************************************************)
EXTENDS Integers, Sequences, FiniteSets, TLC

VARIABLES
    \* HomeView.vue refs
    allCounties, displayedCounties, statistics,
    sortBy, sortDirection, filterOptions, activeChartType,
    \* DOM state of the number inputs of the filter bar
    focus, valueAtFocus,
    \* a caller of the transform layer: its array, its last call, the result
    data, call, ret

vars == <<allCounties, displayedCounties, statistics, sortBy, sortDirection,
          filterOptions, activeChartType, focus, valueAtFocus, data, call, ret>>

viewVars == <<allCounties, displayedCounties, statistics, sortBy, sortDirection,
              filterOptions, activeChartType, focus, valueAtFocus>>

callerVars == <<data, call, ret>>

-----------------------------------------------------------------------------
(* Bounds *)

\* largest number of counties in a dataset; county codes are 1..MaxLen
MaxLen == 2

\* calculateGrowthRate is called directly with GDP figures in -MaxAbsGDP..MaxAbsGDP
MaxAbsGDP == 5

\* GDP figures of a county of the dataset
GDPValues == {0, 1, 2}

\* per-capita GDP figures of a county of the dataset
PerCapitaValues == {1, 2}

\* the keys of prefectureMap
PrefectureCodes == {"P1", "P2"}

\* numbers a caller passes in a filter spec
FilterNumbers == {0, 1}

-----------------------------------------------------------------------------
(* JavaScript numbers *)

Abs(x) == IF x < 0 THEN -x ELSE x

Sign(x) == IF x < 0 THEN -1 ELSE IF x > 0 THEN 1 ELSE 0

RECURSIVE GCD(_, _)
GCD(a, b) == IF b = 0 THEN a ELSE GCD(b, a % b)

\* the finite number n/d (d > 0) in lowest terms
Fin(n, d) ==
    LET g == GCD(Abs(n), d)
    IN  [k |-> "fin", n |-> n \div g, d |-> d \div g]

Num(i) == [k |-> "fin", n |-> i, d |-> 1]
PInf == [k |-> "pinf", n |-> 0, d |-> 1]
NInf == [k |-> "ninf", n |-> 0, d |-> 1]
NaN  == [k |-> "nan", n |-> 0, d |-> 1]
Zero == Num(0)

IsFinite(a) == a.k = "fin"
IsInf(a) == a.k \in {"pinf", "ninf"}
NumSign(a) == CASE a.k = "fin" -> Sign(a.n)
                [] a.k = "pinf" -> 1
                [] a.k = "ninf" -> -1
                [] OTHER -> 0
InfOfSign(s) == IF s > 0 THEN PInf ELSE NInf
NumNeg(a) == CASE a.k = "fin" -> Fin(-a.n, a.d)
               [] a.k = "pinf" -> NInf
               [] a.k = "ninf" -> PInf
               [] OTHER -> NaN

\* a + b
NumAdd(a, b) ==
    CASE a.k = "nan" \/ b.k = "nan" -> NaN
      [] IsInf(a) /\ IsInf(b) -> IF a.k = b.k THEN a ELSE NaN
      [] IsInf(a) -> a
      [] IsInf(b) -> b
      [] OTHER -> Fin(a.n * b.d + b.n * a.d, a.d * b.d)

\* a - b
NumSub(a, b) == NumAdd(a, NumNeg(b))

\* a * b
NumMul(a, b) ==
    CASE a.k = "nan" \/ b.k = "nan" -> NaN
      [] IsInf(a) \/ IsInf(b) ->
            IF NumSign(a) * NumSign(b) = 0 THEN NaN
            ELSE InfOfSign(NumSign(a) * NumSign(b))
      [] OTHER -> Fin(a.n * b.n, a.d * b.d)

\* a / b
NumDiv(a, b) ==
    CASE a.k = "nan" \/ b.k = "nan" -> NaN
      [] IsInf(a) /\ IsInf(b) -> NaN
      [] IsInf(a) -> IF NumSign(b) < 0 THEN NumNeg(a) ELSE a
      [] IsInf(b) -> Zero
      [] b.n = 0 -> IF a.n = 0 THEN NaN ELSE InfOfSign(a.n)
      [] OTHER -> Fin(Sign(b.n) * a.n * b.d, a.d * Abs(b.n))

\* a < b ; every comparison with NaN is false
NumLt(a, b) ==
    /\ a.k # "nan"
    /\ b.k # "nan"
    /\ \/ a.k = "ninf" /\ b.k # "ninf"
       \/ b.k = "pinf" /\ a.k # "pinf"
       \/ a.k = "fin" /\ b.k = "fin" /\ a.n * b.d < b.n * a.d

NumGt(a, b) == NumLt(b, a)

\* a == b on numbers; NaN equals nothing
NumEq(a, b) == a.k # "nan" /\ b.k # "nan" /\ a = b

NumLe(a, b) == NumLt(a, b) \/ NumEq(a, b)

NumGe(a, b) == NumLe(b, a)

\* ToBoolean of a number, as || reads it
Truthy(a) == ~(a.k = "nan" \/ (a.k = "fin" /\ a.n = 0))

-----------------------------------------------------------------------------
(* gdpService.ts *)

SortTypes == {"gdp2023", "gdp2022", "growthRate", "perCapitaGDP"}
SortDirections == {"asc", "desc"}

\* ((year2023 - year2022) / year2022) * 100 || 0
calculateGrowthRate(gdp) ==
    LET r == NumMul(NumDiv(NumSub(Num(gdp.year2023), Num(gdp.year2022)),
                           Num(gdp.year2022)),
                    Num(100))
    IN  IF Truthy(r) THEN r ELSE Zero

\* { ...county, growthRate, ... }
formatCountyData(county) ==
    [code |-> county.code, prefecture |-> county.prefecture,
     gdp |-> county.gdp, perCapitaGDP |-> county.perCapitaGDP,
     growthRate |-> calculateGrowthRate(county.gdp)]

\* counties.map(formatCountyData)
getAllFormattedCounties(counties) ==
    [i \in 1..Len(counties) |-> formatCountyData(counties[i])]

\* a.code.localeCompare(b.code)
LocaleCompare(a, b) == Sign(a - b)

\* SortValue with the growthRate case reading the 2022 GDP
SortValue_GrowthReadsGdp2022(c, by) ==
    CASE by = "gdp2023" -> Num(c.gdp.year2023)
      [] by = "gdp2022" -> Num(c.gdp.year2022)
      [] by = "growthRate" -> Num(c.gdp.year2022)
      [] by = "perCapitaGDP" -> Num(c.perCapitaGDP)
      [] OTHER -> Num(c.gdp.year2023)

\* the value the comparator's switch reads from a county
SortValue(c, by) ==
    CASE by = "gdp2023" -> Num(c.gdp.year2023)
      [] by = "gdp2022" -> Num(c.gdp.year2022)
      [] by = "growthRate" -> c.growthRate
      [] by = "perCapitaGDP" -> Num(c.perCapitaGDP)
      [] OTHER -> Num(c.gdp.year2023)

\* the comparator passed to Array.prototype.sort
Comparator(a, b, by, direction) ==
    LET valueA == SortValue(a, by)
        valueB == SortValue(b, by)
        primaryCompare == IF direction = "asc" THEN NumSub(valueA, valueB)
                          ELSE NumSub(valueB, valueA)
    IN  IF NumEq(primaryCompare, Zero)
        THEN Num(LocaleCompare(a.code, b.code))
        ELSE primaryCompare

\* SortCompare of Array.prototype.sort: a NaN from the comparator counts as +0
SortCompare(a, b, by, direction) ==
    LET v == Comparator(a, b, by, direction)
    IN  IF v.k = "nan" THEN 0 ELSE NumSign(v)

\* Array.prototype.sort is stable: x goes after every element not above it
RECURSIVE InsertSorted(_, _, _, _)
InsertSorted(s, x, by, direction) ==
    IF s = <<>> THEN <<x>>
    ELSE IF SortCompare(s[Len(s)], x, by, direction) > 0
         THEN Append(InsertSorted(SubSeq(s, 1, Len(s) - 1), x, by, direction),
                     s[Len(s)])
         ELSE Append(s, x)

\* the index of the first element of s that no element is below
FirstMinimal(s, by, direction) ==
    CHOOSE i \in 1..Len(s) :
        /\ \A j \in 1..Len(s) : SortCompare(s[i], s[j], by, direction) <= 0
        /\ \A j \in 1..(i - 1) : SortCompare(s[j], s[i], by, direction) > 0

\* ArraySort as an unstable sort: selection sort, which swaps the minimum to
\* the front and so moves elements past their equals
RECURSIVE ArraySort_Selection(_, _, _)
ArraySort_Selection(s, by, direction) ==
    IF Len(s) <= 1 THEN s
    ELSE LET m == FirstMinimal(s, by, direction)
             swapped == [s EXCEPT ![1] = s[m], ![m] = s[1]]
         IN  <<swapped[1]>> \o ArraySort_Selection(Tail(swapped), by, direction)

RECURSIVE ArraySort(_, _, _)
ArraySort(s, by, direction) ==
    IF s = <<>> THEN <<>>
    ELSE InsertSorted(ArraySort(SubSeq(s, 1, Len(s) - 1), by, direction),
                      s[Len(s)], by, direction)

\* an argument left out of a call
NoArg == "undefined"

\* the default parameters: sortBy = 'gdp2023', direction = 'desc'
DefaultSortBy(by) == IF by = NoArg THEN "gdp2023" ELSE by
DefaultDirection(direction) == IF direction = NoArg THEN "desc" ELSE direction

\* const result = [...data].sort(comparator); return result
sortCounties(d, by, direction) ==
    ArraySort(d, DefaultSortBy(by), DefaultDirection(direction))

\* data.sort(comparator) without the copy: the caller's array is sorted in place
SortLeavesInput_InPlace(d, by, direction) == sortCounties(d, by, direction)

\* the array the caller passed, after the call: sort worked on the copy [...data]
SortLeavesInput(d, by, direction) == d

-----------------------------------------------------------------------------
(* JavaScript values held by the fields of a FilterOptions object *)

Undefined == [t |-> "undefined", n |-> 0, s |-> ""]
Str(s) == [t |-> "string", n |-> 0, s |-> s]
NumV(n) == [t |-> "number", n |-> n, s |-> ""]

\* ToBoolean(v)
ToBoolean(v) ==
    CASE v.t = "undefined" -> FALSE
      [] v.t = "string" -> v.s # ""
      [] OTHER -> v.n # 0

\* ToNumber(v): undefined is NaN, the empty string is 0
ToNumber(v) ==
    CASE v.t = "number" -> Num(v.n)
      [] v.t = "string" /\ v.s = "" -> Zero
      [] OTHER -> NaN

\* the options object {}
EmptyOptions ==
    [prefecture |-> Undefined, growthRateMin |-> Undefined,
     growthRateMax |-> Undefined, gdpMin |-> Undefined]

\* FilterKeeps with the bounds exclusive (<= and >= for < and >)
FilterKeeps_ExclusiveBounds(county, options) ==
    IF ToBoolean(options.prefecture) /\ Str(county.prefecture) # options.prefecture
    THEN FALSE
    ELSE IF options.growthRateMin # Undefined
            /\ NumLe(county.growthRate, ToNumber(options.growthRateMin))
    THEN FALSE
    ELSE IF options.growthRateMax # Undefined
            /\ NumGe(county.growthRate, ToNumber(options.growthRateMax))
    THEN FALSE
    ELSE IF options.gdpMin # Undefined
            /\ NumLe(Num(county.gdp.year2023), ToNumber(options.gdpMin))
    THEN FALSE
    ELSE TRUE

\* FilterKeeps without the test that options.prefecture is set
FilterKeeps_PrefectureAlwaysChecked(county, options) ==
    IF Str(county.prefecture) # options.prefecture
    THEN FALSE
    ELSE IF options.growthRateMin # Undefined
            /\ NumLt(county.growthRate, ToNumber(options.growthRateMin))
    THEN FALSE
    ELSE IF options.growthRateMax # Undefined
            /\ NumGt(county.growthRate, ToNumber(options.growthRateMax))
    THEN FALSE
    ELSE IF options.gdpMin # Undefined
            /\ NumLt(Num(county.gdp.year2023), ToNumber(options.gdpMin))
    THEN FALSE
    ELSE TRUE

\* the callback of data.filter
FilterKeeps(county, options) ==
    IF ToBoolean(options.prefecture) /\ Str(county.prefecture) # options.prefecture
    THEN FALSE
    ELSE IF options.growthRateMin # Undefined
            /\ NumLt(county.growthRate, ToNumber(options.growthRateMin))
    THEN FALSE
    ELSE IF options.growthRateMax # Undefined
            /\ NumGt(county.growthRate, ToNumber(options.growthRateMax))
    THEN FALSE
    ELSE IF options.gdpMin # Undefined
            /\ NumLt(Num(county.gdp.year2023), ToNumber(options.gdpMin))
    THEN FALSE
    ELSE TRUE

\* data.filter(callback)
RECURSIVE filterCounties(_, _)
filterCounties(d, options) ==
    IF d = <<>> THEN <<>>
    ELSE LET rest == filterCounties(Tail(d), options)
         IN  IF FilterKeeps(Head(d), options) THEN <<Head(d)>> \o rest ELSE rest

\* data.reduce((sum, county) => sum + f(county), 0)
RECURSIVE ReduceSum(_, _, _)
ReduceSum(d, by, sum) ==
    IF d = <<>> THEN sum
    ELSE ReduceSum(Tail(d), by, NumAdd(sum, SortValue(Head(d), by)))

\* CountPositive with >= 0 for > 0
RECURSIVE CountPositive_ZeroCounts(_)
CountPositive_ZeroCounts(d) ==
    IF d = <<>> THEN 0
    ELSE (IF NumGe(Head(d).growthRate, Zero) THEN 1 ELSE 0)
         + CountPositive_ZeroCounts(Tail(d))

\* data.filter(county => county.growthRate > 0).length
RECURSIVE CountPositive(_)
CountPositive(d) ==
    IF d = <<>> THEN 0
    ELSE (IF NumGt(Head(d).growthRate, Zero) THEN 1 ELSE 0) + CountPositive(Tail(d))

\* data.filter(county => county.growthRate < 0).length
RECURSIVE CountNegative(_)
CountNegative(d) ==
    IF d = <<>> THEN 0
    ELSE (IF NumLt(Head(d).growthRate, Zero) THEN 1 ELSE 0) + CountNegative(Tail(d))

\* getStatistics with the mean guarded the way calculateGrowthRate is (|| 0)
getStatistics_GuardedMean(d) ==
    LET totalGDP2023 == ReduceSum(d, "gdp2023", Zero)
        totalGDP2022 == ReduceSum(d, "gdp2022", Zero)
        mean == NumDiv(ReduceSum(d, "perCapitaGDP", Zero), Num(Len(d)))
    IN  [totalGDP2023 |-> totalGDP2023,
         totalGDP2022 |-> totalGDP2022,
         overallGrowthRate |->
             NumMul(NumDiv(NumSub(totalGDP2023, totalGDP2022), totalGDP2022),
                    Num(100)),
         avgPerCapitaGDP |-> IF Truthy(mean) THEN mean ELSE Zero,
         positiveGrowthCount |-> CountPositive(d),
         negativeGrowthCount |-> CountNegative(d),
         totalCount |-> Len(d)]

getStatistics(d) ==
    LET totalGDP2023 == ReduceSum(d, "gdp2023", Zero)
        totalGDP2022 == ReduceSum(d, "gdp2022", Zero)
    IN  [totalGDP2023 |-> totalGDP2023,
         totalGDP2022 |-> totalGDP2022,
         overallGrowthRate |->
             NumMul(NumDiv(NumSub(totalGDP2023, totalGDP2022), totalGDP2022),
                    Num(100)),
         avgPerCapitaGDP |-> NumDiv(ReduceSum(d, "perCapitaGDP", Zero), Num(Len(d))),
         positiveGrowthCount |-> CountPositive(d),
         negativeGrowthCount |-> CountNegative(d),
         totalCount |-> Len(d)]

-----------------------------------------------------------------------------
(* The datasets: data/counties.ts holds one county per code *)

\* each county belongs to exactly one prefecture
PrefectureOf(code) == IF code % 2 = 1 THEN "P1" ELSE "P2"

CountyRecords ==
    {[code |-> c, prefecture |-> PrefectureOf(c),
      gdp |-> [year2023 |-> y23, year2022 |-> y22], perCapitaGDP |-> p] :
        c \in 1..MaxLen, y23 \in GDPValues, y22 \in GDPValues, p \in PerCapitaValues}

\* sequences of at most MaxLen counties, codes unique
Datasets ==
    UNION {{s \in [1..n -> CountyRecords] :
               \A i, j \in 1..n : i # j => s[i].code # s[j].code} : n \in 0..MaxLen}

-----------------------------------------------------------------------------
(* A caller of the transform layer *)

NoCall == [op |-> "none"]

\* ref<any>(null)
Null == [null |-> TRUE]

InitView ==
    /\ allCounties = <<>>
    /\ displayedCounties = <<>>
    /\ statistics = Null
    /\ sortBy = "gdp2023"
    /\ sortDirection = "desc"
    /\ filterOptions = EmptyOptions
    /\ activeChartType = "gdp"
    /\ focus = "none"
    /\ valueAtFocus = ""

InitCaller ==
    /\ InitView
    /\ \E ds \in Datasets : data = getAllFormattedCounties(ds)
    /\ call = NoCall
    /\ ret = "none"

SortArgs == SortTypes \cup {NoArg}
DirectionArgs == SortDirections \cup {NoArg}

\* the caller has read the result and is ready for its next call
Return ==
    /\ call # NoCall
    /\ call' = NoCall
    /\ ret' = "none"
    /\ data' = data
    /\ UNCHANGED viewVars

GDPArgs == (0 - MaxAbsGDP)..MaxAbsGDP

CallCalculateGrowthRate(gdp) ==
    /\ call = NoCall
    /\ call' = [op |-> "calculateGrowthRate", gdp |-> gdp]
    /\ ret' = calculateGrowthRate(gdp)
    /\ data' = data
    /\ UNCHANGED viewVars

\* the caller passes its array; what the call leaves in it is the array's
\* next value
CallSortCounties(by, direction) ==
    /\ call = NoCall
    /\ call' = [op |-> "sortCounties", input |-> data, sortBy |-> by,
                direction |-> direction]
    /\ ret' = sortCounties(data, by, direction)
    /\ data' = SortLeavesInput(data, by, direction)
    /\ UNCHANGED viewVars

OptionNumbers == {Undefined} \cup {NumV(n) : n \in FilterNumbers}
OptionPrefectures == {Undefined, Str("")} \cup {Str(p) : p \in PrefectureCodes}

\* the FilterOptions objects a caller passes
FilterSpecs ==
    [prefecture : OptionPrefectures, growthRateMin : OptionNumbers,
     growthRateMax : OptionNumbers, gdpMin : OptionNumbers]

CallFilterCounties(options) ==
    /\ call = NoCall
    /\ call' = [op |-> "filterCounties", input |-> data, options |-> options]
    /\ ret' = filterCounties(data, options)
    /\ data' = data
    /\ UNCHANGED viewVars

CallGetStatistics ==
    /\ call = NoCall
    /\ call' = [op |-> "getStatistics", input |-> data]
    /\ ret' = getStatistics(data)
    /\ data' = data
    /\ UNCHANGED viewVars

NextGrowth ==
    \/ \E y23 \in GDPArgs, y22 \in GDPArgs :
           CallCalculateGrowthRate([year2023 |-> y23, year2022 |-> y22])
    \/ Return

NextSort ==
    \/ \E by \in SortArgs, direction \in DirectionArgs :
           CallSortCounties(by, direction)
    \/ Return

NextFilter ==
    \/ \E options \in FilterSpecs : CallFilterCounties(options)
    \/ Return

NextStats ==
    \/ CallGetStatistics
    \/ Return

InitGrowth ==
    /\ InitView
    /\ data = <<>>
    /\ call = NoCall
    /\ ret = "none"

SpecGrowth == InitGrowth /\ [][NextGrowth]_vars

SpecSort == InitCaller /\ [][NextSort]_vars

\* filterCounties reads code, prefecture, gdp and growthRate only: its callers
\* pass the datasets of one per-capita figure
InitFilter ==
    /\ InitView
    /\ \E ds \in Datasets :
          /\ \A i \in 1..Len(ds) : ds[i].perCapitaGDP = 1
          /\ data = getAllFormattedCounties(ds)
    /\ call = NoCall
    /\ ret = "none"

SpecFilter == InitFilter /\ [][NextFilter]_vars

SpecStats == InitCaller /\ [][NextStats]_vars

-----------------------------------------------------------------------------
(* A caller that filters and sorts in both orders *)

\* the GDP figures of a county of this caller's datasets: growth rates
\* Infinity, -100 and 0
PipelineGDP ==
    {[year2023 |-> 1, year2022 |-> 0], [year2023 |-> 0, year2022 |-> 1],
     [year2023 |-> 1, year2022 |-> 1]}

\* the datasets of this caller: up to MaxLen + 1 counties, per-capita figures
\* 2, 1, 2, .. by code
PipelineCounties ==
    {[code |-> c, prefecture |-> PrefectureOf(c), gdp |-> g,
      perCapitaGDP |-> 1 + (c % 2)] : c \in 1..(MaxLen + 1), g \in PipelineGDP}

PipelineDatasets ==
    UNION {{s \in [1..n -> PipelineCounties] :
               \A i, j \in 1..n : i # j => s[i].code # s[j].code} :
           n \in 0..(MaxLen + 1)}

\* the filter specs of this caller: each number field unset or 1
PipelineFilterSpecs ==
    [prefecture : OptionPrefectures, growthRateMin : {Undefined, NumV(1)},
     growthRateMax : {Undefined, NumV(1)}, gdpMin : {Undefined, NumV(1)}]

InitPipeline ==
    /\ InitView
    /\ \E ds \in PipelineDatasets : data = getAllFormattedCounties(ds)
    /\ call = NoCall
    /\ ret = "none"

\* sortCounties(filterCounties(data, options), by, direction), the order of
\* updateDisplayedData, and filterCounties(sortCounties(data, by, direction),
\* options)
CallBothOrders(options, by, direction) ==
    /\ call = NoCall
    /\ call' = [op |-> "bothOrders", input |-> data, options |-> options,
                sortBy |-> by, direction |-> direction]
    /\ ret' = [filterThenSort |->
                   sortCounties(filterCounties(data, options), by, direction),
               sortThenFilter |->
                   filterCounties(sortCounties(data, by, direction), options)]
    /\ data' = data
    /\ UNCHANGED viewVars

NextPipeline ==
    \/ \E options \in PipelineFilterSpecs, by \in SortTypes,
          direction \in SortDirections : CallBothOrders(options, by, direction)
    \/ Return

SpecPipeline == InitPipeline /\ [][NextPipeline]_vars

-----------------------------------------------------------------------------
(* views/HomeView.vue *)

ChartTypes == {"gdp", "growth", "perCapita"}

\* the inputs bound with v-model.number
NumberFields == {"growthRateMin", "growthRateMax", "gdpMin"}

\* what the user leaves in a number input after a keystroke
TypedTexts == {"", "1"}

\* parseFloat of a text of digits
ParseFloat(text) == CASE text = "0" -> 0 [] text = "1" -> 1 [] text = "2" -> 2

\* String(n) of a small whole number
NumberToString(n) == CASE n = 0 -> "0" [] n = 1 -> "1" [] n = 2 -> "2"

\* looseToNumber of v-model.number: parseFloat(text), or the text itself when
\* that is NaN, as it is for the empty text
LooseToNumber(text) == IF text = "" THEN Str("") ELSE NumV(ParseFloat(text))

\* the text v-model shows in an input for the bound value
DomText(v) ==
    CASE v.t = "undefined" -> ""
      [] v.t = "string" -> v.s
      [] OTHER -> NumberToString(v.n)

\* the counties of data/counties.ts, as the view is checked: MaxLen counties in
\* code order, a 2022 GDP of 0 or 1 (growth rates -100, 0, 100 and Infinity),
\* per-capita figures 2, 1, 2, .. by code
StaticDatasets ==
    {ds \in Datasets :
        /\ Len(ds) = MaxLen
        /\ \A i \in 1..Len(ds) : /\ ds[i].code = i
                                 /\ ds[i].gdp.year2022 \in {0, 1}
                                 /\ ds[i].perCapitaGDP = 1 + (i % 2)}

\* statistics is null until onMounted has run
Mounted == statistics # Null

\* updateDisplayedData(): filter, then sort, then the statistics of the result
DisplayedData(all, options, by, direction) ==
    sortCounties(filterCounties(all, options), by, direction)

updateDisplayedData(all, options, by, direction) ==
    /\ displayedCounties' = DisplayedData(all, options, by, direction)
    /\ statistics' = getStatistics(DisplayedData(all, options, by, direction))

\* onMounted
OnMounted ==
    /\ ~Mounted
    /\ \E ds \in StaticDatasets :
          /\ allCounties' = getAllFormattedCounties(ds)
          /\ updateDisplayedData(getAllFormattedCounties(ds), filterOptions,
                                 sortBy, sortDirection)
    /\ UNCHANGED <<sortBy, sortDirection, filterOptions, activeChartType,
                   focus, valueAtFocus, callerVars>>

\* a click outside the number inputs reaches its handler once the focused
\* input, if any, has lost the focus
ClickReady == Mounted /\ focus = "none"

\* the sort key the watcher of activeChartType picks
ChartSortBy(newType) ==
    IF newType = "growth" THEN "growthRate"
    ELSE IF newType = "perCapita" THEN "perCapitaGDP"
    ELSE "gdp2023"

\* a click on a chart tab that changes activeChartType, and the watcher it
\* triggers
SelectChartType(newType) ==
    /\ ClickReady
    /\ newType # activeChartType
    /\ activeChartType' = newType
    /\ sortBy' = ChartSortBy(newType)
    /\ sortDirection' = "desc"
    /\ updateDisplayedData(allCounties, filterOptions, ChartSortBy(newType), "desc")
    /\ UNCHANGED <<allCounties, filterOptions, focus, valueAtFocus, callerVars>>

\* sortDirection.value === 'asc' ? 'desc' : 'asc'
Flip(direction) == IF direction = "asc" THEN "desc" ELSE "asc"

\* the sort state handleSortChange(column) sets
SortStateAfterClick(by, direction, column) ==
    IF by = column
    THEN [sortBy |-> by, sortDirection |-> Flip(direction)]
    ELSE [sortBy |-> column, sortDirection |-> "desc"]

\* a click on a column header
handleSortChange(column) ==
    LET next == SortStateAfterClick(sortBy, sortDirection, column)
    IN  /\ ClickReady
        /\ sortBy' = next.sortBy
        /\ sortDirection' = next.sortDirection
        /\ updateDisplayedData(allCounties, filterOptions, next.sortBy,
                               next.sortDirection)
        /\ UNCHANGED <<allCounties, filterOptions, activeChartType, focus,
                       valueAtFocus, callerVars>>

\* the user picks another option of the prefecture select: v-model assigns on
\* the change event, then @change runs handleFilterChange
SelectPrefecture(value) ==
    /\ ClickReady
    /\ Str(value) # filterOptions.prefecture
    /\ filterOptions' = [filterOptions EXCEPT !.prefecture = Str(value)]
    /\ updateDisplayedData(allCounties,
                           [filterOptions EXCEPT !.prefecture = Str(value)],
                           sortBy, sortDirection)
    /\ UNCHANGED <<allCounties, sortBy, sortDirection, activeChartType, focus,
                   valueAtFocus, callerVars>>

\* the user puts the cursor in a number input
FocusInput(field) ==
    /\ ClickReady
    /\ focus' = field
    /\ valueAtFocus' = DomText(filterOptions[field])
    /\ UNCHANGED <<allCounties, displayedCounties, statistics, sortBy,
                   sortDirection, filterOptions, activeChartType, callerVars>>

\* a keystroke in the focused input: v-model.number assigns on the input event;
\* no handler of the view listens to it
TypeInput(text) ==
    /\ Mounted
    /\ focus # "none"
    /\ text # DomText(filterOptions[focus])
    /\ filterOptions' = [filterOptions EXCEPT ![focus] = LooseToNumber(text)]
    /\ UNCHANGED <<allCounties, displayedCounties, statistics, sortBy,
                   sortDirection, activeChartType, focus, valueAtFocus,
                   callerVars>>

\* the change event reaches handleFilterChange when the input is left with a
\* text other than the one it had when it took the focus
ChangeFires == DomText(filterOptions[focus]) # valueAtFocus

\* the focused input loses the focus
BlurInput ==
    /\ Mounted
    /\ focus # "none"
    /\ focus' = "none"
    /\ valueAtFocus' = ""
    /\ IF ChangeFires
       THEN updateDisplayedData(allCounties, filterOptions, sortBy, sortDirection)
       ELSE UNCHANGED <<displayedCounties, statistics>>
    /\ UNCHANGED <<allCounties, sortBy, sortDirection, filterOptions,
                   activeChartType, callerVars>>

\* a click on the reset button
resetFilters ==
    /\ ClickReady
    /\ filterOptions' = EmptyOptions
    /\ updateDisplayedData(allCounties, EmptyOptions, sortBy, sortDirection)
    /\ UNCHANGED <<allCounties, sortBy, sortDirection, activeChartType, focus,
                   valueAtFocus, callerVars>>

Init ==
    /\ InitView
    /\ data = <<>>
    /\ call = NoCall
    /\ ret = "none"

Next ==
    \/ OnMounted
    \/ \E newType \in ChartTypes : SelectChartType(newType)
    \/ \E column \in SortTypes : handleSortChange(column)
    \/ \E value \in {""} \cup PrefectureCodes : SelectPrefecture(value)
    \/ \E field \in NumberFields : FocusInput(field)
    \/ \E text \in TypedTexts : TypeInput(text)
    \/ BlurInput
    \/ resetFilters

Spec == Init /\ [][Next]_vars

-----------------------------------------------------------------------------
(* Properties of the transform layer *)

IsSortCall == call.op = "sortCounties"
IsFilterCall == call.op = "filterCounties"
IsStatsCall == call.op = "getStatistics"
IsGrowthCall == call.op = "calculateGrowthRate"

\* the rearrangements of a sequence
PermutationsOf(s) ==
    {[i \in 1..Len(s) |-> s[f[i]]] : f \in Permutations(1..Len(s))}

\* the number of elements of s with code c
CodeCount(s, c) == Cardinality({i \in 1..Len(s) : s[i].code = c})

\* the field of a county a sort key names
KeyOf(c, by) ==
    IF by = "gdp2023" THEN Num(c.gdp.year2023)
    ELSE IF by = "gdp2022" THEN Num(c.gdp.year2022)
    ELSE IF by = "growthRate" THEN c.growthRate
    ELSE Num(c.perCapitaGDP)

\* C1: calculateGrowthRate returns exactly 0 whenever gdp.year2022 is 0, for
\* every gdp.year2023, and so never a NaN or an infinity.
C1_ZeroPriorYearGivesZero ==
    (IsGrowthCall /\ call.gdp.year2022 = 0) => ret = Zero

\* C2: sortCounties does not depend on the order of its input: every
\* rearrangement of the input sorts to the same sequence, and elements equal
\* on the key stand in ascending order of code, in both directions.
C2_SortIndependentOfInputOrder ==
    IsSortCall =>
        /\ \A p \in PermutationsOf(call.input) :
               sortCounties(p, call.sortBy, call.direction) = ret
        /\ \A i, j \in 1..Len(ret) :
               (i < j /\ NumEq(KeyOf(ret[i], DefaultSortBy(call.sortBy)),
                               KeyOf(ret[j], DefaultSortBy(call.sortBy))))
                   => ret[i].code < ret[j].code

\* C3: sortCounties returns a permutation of its input (same length, same
\* multiset of codes, the elements themselves) and leaves the caller's array
\* in its original order.
C3_SortIsPermutationAndKeepsInput ==
    IsSortCall =>
        /\ Len(ret) = Len(call.input)
        /\ \A c \in 1..MaxLen : CodeCount(ret, c) = CodeCount(call.input, c)
        /\ ret \in PermutationsOf(call.input)
        /\ data = call.input

C3_Witness ==
    /\ IsSortCall
    /\ Len(call.input) = MaxLen
    /\ ret # call.input
    /\ data = call.input

\* C4: the output of sortCounties is ordered by the chosen field: adjacent
\* elements are non-decreasing on the key for 'asc' and non-increasing for
\* 'desc'; without arguments the key is gdp.year2023 and the direction 'desc'.
C4_SortedByKey ==
    IsSortCall =>
        LET by == IF call.sortBy = NoArg THEN "gdp2023" ELSE call.sortBy
            dir == IF call.direction = NoArg THEN "desc" ELSE call.direction
        IN  \A i \in 1..(Len(ret) - 1) :
                IF dir = "asc"
                THEN NumLe(KeyOf(ret[i], by), KeyOf(ret[i + 1], by))
                ELSE NumGe(KeyOf(ret[i], by), KeyOf(ret[i + 1], by))

C4_Witness ==
    /\ IsSortCall
    /\ call.sortBy = "growthRate"
    /\ call.direction = "asc"
    /\ Len(ret) = MaxLen
    /\ ret # call.input
    /\ NumLt(ret[1].growthRate, ret[Len(ret)].growthRate)
    /\ ret[1].gdp.year2022 > ret[Len(ret)].gdp.year2022

\* a field of a filter spec is set when it holds a value
IsSet(v) == v # Undefined

\* the predicate of C5 as stated: every set field constrains
SatisfiesEverySetField(c, o) ==
    /\ IsSet(o.prefecture) => Str(c.prefecture) = o.prefecture
    /\ IsSet(o.growthRateMin) => NumGe(c.growthRate, Num(o.growthRateMin.n))
    /\ IsSet(o.growthRateMax) => NumLe(c.growthRate, Num(o.growthRateMax.n))
    /\ IsSet(o.gdpMin) => c.gdp.year2023 >= o.gdpMin.n

\* the predicate of C5 as amended: an empty prefecture constrains nothing
SatisfiesEveryGivenField(c, o) ==
    /\ (IsSet(o.prefecture) /\ o.prefecture # Str(""))
           => Str(c.prefecture) = o.prefecture
    /\ IsSet(o.growthRateMin) => NumGe(c.growthRate, Num(o.growthRateMin.n))
    /\ IsSet(o.growthRateMax) => NumLe(c.growthRate, Num(o.growthRateMax.n))
    /\ IsSet(o.gdpMin) => c.gdp.year2023 >= o.gdpMin.n

\* C5 as stated: filterCounties returns, in input order, exactly the elements
\* that satisfy every set field (prefecture equal, growthRate within the
\* inclusive bounds, gdp.year2023 >= gdpMin).
C5_FilterKeepsExactlyEverySetField ==
    IsFilterCall =>
        LET Keep(c) == SatisfiesEverySetField(c, call.options)
        IN  ret = SelectSeq(call.input, Keep)

\* C5 as amended: the same, where a prefecture that is not set or is the empty
\* string imposes no constraint.
C5_FilterKeepsExactlyEveryGivenField ==
    IsFilterCall =>
        LET Keep(c) == SatisfiesEveryGivenField(c, call.options)
        IN  ret = SelectSeq(call.input, Keep)

C5_Witness ==
    /\ IsFilterCall
    /\ call.options.prefecture = Str("")
    /\ call.options.growthRateMin = NumV(0)
    /\ call.options.gdpMin = NumV(1)
    /\ Len(call.input) = MaxLen
    /\ Len(ret) = 1
    /\ ret[1] = call.input[Len(call.input)]
    /\ ret[1].growthRate = Zero
    /\ ret[1].gdp.year2023 = 1

\* C6: filterCounties with the empty filter spec returns the elements of its
\* input in the same order, for every input, the empty one included.
C6_EmptyFilterIsIdentity ==
    (IsFilterCall /\ call.options = EmptyOptions) => ret = call.input

C6_Witness ==
    /\ IsFilterCall
    /\ call.options = EmptyOptions
    /\ Len(call.input) = MaxLen
    /\ ret = call.input
    /\ \E i \in 1..Len(ret) : NumLt(ret[i].growthRate, Zero)

\* C7: positiveGrowthCount + negativeGrowthCount <= totalCount, totalCount is
\* the input length, and equality holds exactly when no element has growth 0.
C7_GrowthCountsWithinTotal ==
    IsStatsCall =>
        /\ ret.totalCount = Len(call.input)
        /\ ret.positiveGrowthCount + ret.negativeGrowthCount <= ret.totalCount
        /\ (ret.positiveGrowthCount + ret.negativeGrowthCount = ret.totalCount)
               <=> (\A i \in 1..Len(call.input) : call.input[i].growthRate # Zero)

C7_Witness ==
    /\ IsStatsCall
    /\ Len(call.input) = MaxLen
    /\ \E i \in 1..Len(call.input) : call.input[i].growthRate = Zero
    /\ \E i \in 1..Len(call.input) : call.input[i].growthRate = PInf
    /\ ret.positiveGrowthCount + ret.negativeGrowthCount < ret.totalCount

StatisticsFields ==
    {"totalGDP2023", "totalGDP2022", "overallGrowthRate", "avgPerCapitaGDP",
     "positiveGrowthCount", "negativeGrowthCount", "totalCount"}

\* the sum of the 2022 GDP figures of a sequence of counties
RECURSIVE SumYear2022(_)
SumYear2022(s) ==
    IF s = <<>> THEN 0 ELSE Head(s).gdp.year2022 + SumYear2022(Tail(s))

\* C9: getStatistics returns a statistics record for every input; for the
\* empty input the totals and counts are 0 and avgPerCapitaGDP is not finite;
\* whenever the 2022 GDP of the input sums to 0, overallGrowthRate is not
\* finite.
C9_StatisticsTotalWithNonFiniteEdges ==
    IsStatsCall =>
        /\ DOMAIN ret = StatisticsFields
        /\ call.input = <<>> =>
              /\ ret.totalCount = 0
              /\ ret.totalGDP2023 = Zero
              /\ ret.totalGDP2022 = Zero
              /\ ret.positiveGrowthCount = 0
              /\ ret.negativeGrowthCount = 0
              /\ ~IsFinite(ret.avgPerCapitaGDP)
        /\ SumYear2022(call.input) = 0 => ~IsFinite(ret.overallGrowthRate)

C9_Witness ==
    /\ IsStatsCall
    /\ call.input = <<>>
    /\ ret.avgPerCapitaGDP = NaN
    /\ ret.overallGrowthRate = NaN

-----------------------------------------------------------------------------
(* Properties of the home view *)

\* C8: once loaded, whenever no input is being edited, the displayed list is
\* sortCounties(filterCounties(allCounties, filterOptions), sortBy,
\* sortDirection) for the current filterOptions, sortBy and sortDirection, and
\* the statistics are getStatistics of the displayed list.
C8_DisplayedMatchesFilterAndSort ==
    (Mounted /\ focus = "none") =>
        /\ displayedCounties =
               sortCounties(filterCounties(allCounties, filterOptions),
                            sortBy, sortDirection)
        /\ statistics = getStatistics(displayedCounties)

\* C10: a click on the current sort column flips sortDirection and keeps
\* sortBy, so that a second click on it restores the direction and the
\* displayed list of before the first; a click on another column selects it
\* with direction 'desc'; either way filterOptions and allCounties are
\* unchanged.
C10_SortClickFlipsOrSelects ==
    [][\A column \in SortTypes :
           handleSortChange(column) =>
               /\ column = sortBy =>
                     /\ sortBy' = sortBy
                     /\ sortDirection' \in SortDirections \ {sortDirection}
                     /\ SortStateAfterClick(sortBy', sortDirection', column)
                            = [sortBy |-> sortBy, sortDirection |-> sortDirection]
                     /\ DisplayedData(allCounties', filterOptions', sortBy,
                                      sortDirection) = displayedCounties
               /\ column # sortBy =>
                     /\ sortBy' = column
                     /\ sortDirection' = "desc"
               /\ filterOptions' = filterOptions
               /\ allCounties' = allCounties]_vars

-----------------------------------------------------------------------------
(* Filtering and sorting together *)

\* C11: filtering and sorting commute: for every input with unique codes,
\* every filter spec, every sort key and both directions,
\* sortCounties(filterCounties(data, options), key, dir) is the same sequence
\* as filterCounties(sortCounties(data, key, dir), options).
C11_FilterAndSortCommute ==
    call.op = "bothOrders" => ret.filterThenSort = ret.sortThenFilter

\* the filter drops the county the sort moves, and the counties it keeps tie
\* on an infinite growth rate, where no tie-break by code applies
C11_Witness ==
    /\ call.op = "bothOrders"
    /\ call.sortBy = "growthRate"
    /\ call.direction = "asc"
    /\ call.options.growthRateMin = NumV(1)
    /\ Len(call.input) = MaxLen + 1
    /\ Len(ret.filterThenSort) = Len(call.input) - 1
    /\ \A i \in 1..Len(ret.filterThenSort) : ret.filterThenSort[i].growthRate = PInf
    /\ ret.filterThenSort[1].code > ret.filterThenSort[2].code
    /\ sortCounties(call.input, call.sortBy, call.direction) # call.input
    /\ ret.sortThenFilter = ret.filterThenSort

====
